---- MODULE Spec2Model ----
(***************************************************************************)
(* INJ-epaper-node: the timing experiment loop (retry/backoff around        *)
(* broadcaster.broadcast, CSV log) and the stdin/stdout broadcast worker    *)
(* send_set_value.js.                                                       *)
(*                                                                          *)
(* JavaScript strings are sequences of one-character strings, so that       *)
(* escaping, case folding and substring search are computed.  JavaScript    *)
(* values are tagged records: [t |-> "undef"], [t |-> "null"],              *)
(* [t |-> "str", s |-> chars], [t |-> "num", n |-> Nat],                    *)
(* [t |-> "obj", f |-> fields], [t |-> "err", message |-> chars].           *)
(* Time is in integer milliseconds.                                         *)
(***************************************************************************)
EXTENDS Integers, Sequences, FiniteSets, TLC

\* ------------------------------------------------------------------ bounds
\* Largest trial count N the experiment is run with.
MaxN == 2

\* ------------------------------------------------------ program constants
MaxAttempts == 3
SeqBackoffMs == 1200
OtherBackoffMs == 400

\* ------------------------------------------------------------ JS values
Undef == [t |-> "undef"]
Null == [t |-> "null"]
Str(s) == [t |-> "str", s |-> s]
Num(n) == [t |-> "num", n |-> n]
Obj(f) == [t |-> "obj", f |-> f]
ErrorObj(m) == [t |-> "err", message |-> m]

Nullish(v) == v.t \in {"undef", "null"}

\* ToBoolean
Truthy(v) ==
  CASE v.t = "undef" -> FALSE
    [] v.t = "null" -> FALSE
    [] v.t = "str" -> v.s # <<>>
    [] v.t = "num" -> v.n # 0
    [] OTHER -> TRUE

\* a || b
JsOr(a, b) == IF Truthy(a) THEN a ELSE b
\* a ?? b
Coalesce(a, b) == IF Nullish(a) THEN b ELSE a

\* obj?.key : undefined on a nullish object or a missing key
OptGet(o, k) ==
  IF o.t = "obj" /\ k \in DOMAIN o.f THEN o.f[k]
  ELSE IF o.t = "err" /\ k = "message" THEN Str(o.message)
  ELSE Undef

Digits == <<"0", "1", "2", "3", "4", "5", "6", "7", "8", "9">>

\* Number.prototype.toString of a non-negative integer
RECURSIVE Dec(_)
Dec(n) == IF n < 10 THEN <<Digits[n + 1]>> ELSE Dec(n \div 10) \o <<Digits[(n % 10) + 1]>>

\* String(v)
ToStr(v) ==
  CASE v.t = "str" -> v.s
    [] v.t = "num" -> Dec(v.n)
    [] v.t = "undef" -> <<"u", "n", "d", "e", "f", "i", "n", "e", "d">>
    [] v.t = "null" -> <<"n", "u", "l", "l">>
    [] v.t = "err" ->
         IF v.message = <<>> THEN <<"E", "r", "r", "o", "r">>
         ELSE <<"E", "r", "r", "o", "r", ":", " ">> \o v.message
    [] OTHER -> <<"[", "o", "b", "j", "e", "c", "t", " ", "O", "b", "j", "e", "c", "t", "]">>

\* Array.prototype.join
RECURSIVE Join(_, _)
Join(parts, sep) ==
  IF parts = <<>> THEN <<>>
  ELSE IF Len(parts) = 1 THEN parts[1]
  ELSE parts[1] \o sep \o Join(Tail(parts), sep)

\* ------------------------------------------------------------ strings
UpperCase == <<"A", "B", "C", "D", "E", "F", "G", "H", "I", "J", "K", "L", "M",
               "N", "O", "P", "Q", "R", "S", "T", "U", "V", "W", "X", "Y", "Z">>
LowerCase == <<"a", "b", "c", "d", "e", "f", "g", "h", "i", "j", "k", "l", "m",
               "n", "o", "p", "q", "r", "s", "t", "u", "v", "w", "x", "y", "z">>

\* case folding of one character, as the regular expression flag i does
FoldChar(c) ==
  IF \E k \in 1..26 : UpperCase[k] = c
  THEN LowerCase[CHOOSE k \in 1..26 : UpperCase[k] = c]
  ELSE c

Fold(s) == [k \in 1..Len(s) |-> FoldChar(s[k])]

\* s contains the literal pat
Contains(s, pat) ==
  \E k \in 0..(Len(s) - Len(pat)) : SubSeq(s, k + 1, k + Len(pat)) = pat

HasChar(s, c) == \E k \in 1..Len(s) : s[k] = c

\* String.prototype.replaceAll('"', '""')
RECURSIVE DoubleQuotes(_)
DoubleQuotes(s) ==
  IF s = <<>> THEN <<>>
  ELSE (IF s[1] = "\"" THEN <<"\"", "\"">> ELSE <<s[1]>>) \o DoubleQuotes(Tail(s))

\* ------------------------------------------------- experiment: pure parts
\* CSV escape
esc(v) ==
  LET s == ToStr(Coalesce(v, Str(<<>>)))
  IN IF HasChar(s, "\"") \/ HasChar(s, ",") \/ HasChar(s, "\n")
     THEN <<"\"">> \o DoubleQuotes(s) \o <<"\"">>
     ELSE s

header == << <<"i">>,
             <<"v", "a", "l", "u", "e">>,
             <<"b", "r", "o", "a", "d", "c", "a", "s", "t", "_", "m", "s">>,
             <<"t", "x", "h", "a", "s", "h">>,
             <<"c", "o", "d", "e">>,
             <<"h", "e", "i", "g", "h", "t">>,
             <<"g", "a", "s", "W", "a", "n", "t", "e", "d">>,
             <<"g", "a", "s", "U", "s", "e", "d">>,
             <<"t", "i", "m", "e", "s", "t", "a", "m", "p">>,
             <<"e", "r", "r", "o", "r">> >>

\* header.join(",") + "\n"
HeaderLine == Join(header, <<",">>) \o <<"\n">>

\* `pi-exp-${Date.now()}-${i}`
PayloadValue(now, idx) ==
  <<"p", "i", "-", "e", "x", "p", "-">> \o Dec(now) \o <<"-">> \o Dec(idx)

\* Number.prototype.toFixed(d) of a whole number of milliseconds
ToFixed(ms, d) == Dec(ms) \o <<".">> \o [k \in 1..d |-> "0"]

\* errMsg = (e && (e.message || String(e))) || "unknown error"
ErrMsgOf(e) ==
  LET inner == IF Truthy(e) THEN JsOr(OptGet(e, "message"), Str(ToStr(e))) ELSE e
  IN ToStr(JsOr(inner, Str(<<"u", "n", "k", "n", "o", "w", "n", " ", "e", "r", "r", "o", "r">>)))

IsSequenceError_CaseSensitive(msg) ==
  \/ Contains(msg, <<"s", "e", "q", "u", "e", "n", "c", "e">>)
  \/ Contains(msg, <<"a", "c", "c", "o", "u", "n", "t", " ", "s", "e", "q", "u", "e", "n", "c", "e">>)
  \/ Contains(msg, <<"i", "n", "c", "o", "r", "r", "e", "c", "t">>)

\* /sequence|account sequence|incorrect/i.test(errMsg)
IsSequenceError(msg) ==
  \/ Contains(Fold(msg), <<"s", "e", "q", "u", "e", "n", "c", "e">>)
  \/ Contains(Fold(msg), <<"a", "c", "c", "o", "u", "n", "t", " ", "s", "e", "q", "u", "e", "n", "c", "e">>)
  \/ Contains(Fold(msg), <<"i", "n", "c", "o", "r", "r", "e", "c", "t">>)

\* the argument of the sleep call in the catch block
BackoffDelay(msg, a) ==
  IF IsSequenceError(msg) THEN SeqBackoffMs * a ELSE OtherBackoffMs * a

TrialLoopContinues_Exclusive(idx, n) == idx < n

\* the condition of the trial loop: i <= N
TrialLoopContinues(idx, n) == idx <= n

RetryLoopContinues_OneMore(a) == a <= MaxAttempts + 1

\* the condition of the retry loop: attempt <= 3
RetryLoopContinues(a) == a <= MaxAttempts

CatchErrMsg_KeepFirst(prev, e) == IF prev # <<>> THEN prev ELSE ErrMsgOf(e)

\* the assignment to errMsg in the catch block; prev is errMsg before it
CatchErrMsg(prev, e) == ErrMsgOf(e)

\* fs.writeFileSync: the file's lines after text replaces what it held
WriteFile(old, text) == <<text>>

AppendFile_Lost(old, text) == old

\* fs.appendFileSync: the file's lines after text is added at its end
AppendFile(old, text) == Append(old, text)

\* what a file that held old holds when a write of text to its end fails
\* after k < Len(text) characters: nothing of text, or its first k characters
\* as a last line without its line end
TornWrites(old, text) ==
  {old} \cup { Append(old, SubSeq(text, 1, k)) : k \in 1..(Len(text) - 1) }

\* the row object built after the retry loop
MakeRow(idx, val, broadcastMs, r, msg) ==
  [ i |-> Num(idx),
    value |-> Str(val),
    broadcast_ms |-> Str(ToFixed(broadcastMs, 3)),
    txhash |-> JsOr(JsOr(OptGet(r, "txhash"), OptGet(r, "txHash")), Str(<<>>)),
    code |-> Coalesce(OptGet(r, "code"), Str(<<>>)),
    height |-> Coalesce(OptGet(r, "height"), Str(<<>>)),
    gasWanted |-> Coalesce(OptGet(r, "gasWanted"), Str(<<>>)),
    gasUsed |-> Coalesce(OptGet(r, "gasUsed"), Str(<<>>)),
    timestamp |-> Coalesce(OptGet(r, "timestamp"), Str(<<>>)),
    error |-> IF Truthy(r) THEN Str(<<>>) ELSE Str(msg) ]

RowFields(row) ==
  << row.i, row.value, row.broadcast_ms, row.txhash, row.code, row.height,
     row.gasWanted, row.gasUsed, row.timestamp, row.error >>

\* header.map((k) => esc(row[k])).join(",") + "\n"
RowLine(row) ==
  Join([k \in 1..Len(header) |-> esc(RowFields(row)[k])], <<",">>) \o <<"\n">>

\* ------------------------------------------------- experiment: environment
\* process.env of one run: CONTRACT and MNEMONIC are "" when unset, MNEMONIC
\* "bad" is one PrivateKey.fromMnemonic rejects; N and SLEEP_MS are the
\* numbers Number(process.env.N), Number(process.env.SLEEP_MS).
Envs ==
  [ CONTRACT : {"", "inj1contract"},
    MNEMONIC : {"", "bad", "good"},
    N : 0..MaxN,
    SLEEP_MS : {0, 5} ]

\* what broadcaster.broadcast resolves to
TxFull ==
  Obj([ txhash |-> Str(<<"A", "B", "1">>), code |-> Num(0), height |-> Num(7),
        gasWanted |-> Num(90), gasUsed |-> Num(81), timestamp |-> Str(<<"T", "1">>) ])
TxCamel == Obj([ txHash |-> Str(<<"C", "D", "2">>), code |-> Num(0) ])
TxBare == Obj([ code |-> Num(5) ])

\* what broadcaster.broadcast rejects with
ErrSequence ==
  ErrorObj(<<"a", "c", "c", "o", "u", "n", "t", " ", "s", "e", "q", "u", "e", "n", "c", "e",
             " ", "m", "i", "s", "m", "a", "t", "c", "h">>)
ErrTimeout == ErrorObj(<<"t", "i", "m", "e", "o", "u", "t">>)
ErrIncorrect == ErrorObj(<<"I", "n", "c", "o", "r", "r", "e", "c", "t", " ", "n", "o", "n", "c", "e">>)

\* the outcomes of one broadcast call of the experiment, each with its latency
ReturnOutcomes ==
  { [kind |-> "return", v |-> TxFull, ms |-> 2],
    [kind |-> "return", v |-> TxCamel, ms |-> 3],
    [kind |-> "return", v |-> Undef, ms |-> 2] }
ThrowOutcomes ==
  { [kind |-> "throw", v |-> ErrSequence, ms |-> 1],
    [kind |-> "throw", v |-> ErrTimeout, ms |-> 1],
    [kind |-> "throw", v |-> ErrIncorrect, ms |-> 1] }

\* ------------------------------------------------------------------ state
VARIABLES
  pc,        \* where the experiment script is
  env,       \* its process.env
  exitCode,  \* -1 while it runs, then its exit status
  file,      \* the lines of the file OUT
  i,         \* the trial loop's counter
  attempt,   \* the retry loop's counter
  value,     \* the trial's payload value
  t0,        \* nowNs() before the retry loop
  clock,     \* the time, in ms
  res,       \* the trial's result
  errMsg,    \* the trial's error message
  timer,     \* the delay of the pending sleep
  console,   \* the status lines logged
  rows,      \* the row objects appended so far
  nsub,      \* history: broadcast calls issued in the current trial
  hist,      \* history: the outcomes of the current trial's attempts
  slept      \* history: the backoff delays slept in the current trial

xvars == << pc, env, exitCode, file, i, attempt, value, t0, clock, res, errMsg,
            timer, console, rows, nsub, hist, slept >>

VARIABLES
  wpc,       \* where the broadcast worker is
  wenv,      \* its process.env
  stdin,     \* the text on its standard input
  stdout,    \* the documents written to its standard output
  wexit,     \* -1 while it runs, then its exit status
  wsub,      \* broadcast calls it has issued
  wclock,    \* its time, in ms
  wt0        \* its nowNs() before the broadcast call

wvars == << wpc, wenv, stdin, stdout, wexit, wsub, wclock, wt0 >>

VARIABLES
  ppc,        \* where the set-and-confirm script is
  penv,       \* its process.env
  pexit,      \* -1 while it runs, then its exit status
  newValue,   \* the value it sets
  pi,         \* the poll loop's counter
  plast,      \* the last query response
  ptimer,     \* the delay of the pending sleep
  pclock,     \* its time, in ms
  poutcome,   \* what it logged at its end: "confirmed", "not confirmed" or ""
  nbroadcast, \* history: broadcast calls issued
  nquery,     \* history: queries issued
  nresp,      \* history: query responses received
  pslept      \* history: total of the delays slept

pvars == << ppc, penv, pexit, newValue, pi, plast, ptimer, pclock, poutcome,
            nbroadcast, nquery, nresp, pslept >>

VARIABLES
  epc,       \* "in" before esc is applied, "done" after
  ein,       \* the value given to esc
  eout       \* the text esc returned

evars == << epc, ein, eout >>

vars == << xvars, wvars, pvars, evars >>

\* the set-and-confirm script's part of a state: at `at`, environment e
PollAt(at, e) ==
  /\ ppc = at
  /\ penv = e
  /\ pexit = -1
  /\ newValue = <<>>
  /\ pi = 0
  /\ plast = Undef
  /\ ptimer = 0
  /\ pclock = 0
  /\ poutcome = ""
  /\ nbroadcast = 0
  /\ nquery = 0
  /\ nresp = 0
  /\ pslept = 0

PollIdle == PollAt("idle", [RPC |-> "", CONTRACT |-> "", MNEMONIC |-> ""])

\* esc's part of a state in which it is not under test
EscIdle ==
  /\ epc = "idle"
  /\ ein = Undef
  /\ eout = <<>>

\* the worker's half of a state in which only the experiment runs
WorkerIdle ==
  /\ wpc = "idle"
  /\ wenv = [CONTRACT |-> "", MNEMONIC |-> ""]
  /\ stdin = [text |-> <<>>, json |-> Undef]
  /\ stdout = <<>>
  /\ wexit = -1
  /\ wsub = 0
  /\ wclock = 0
  /\ wt0 = 0

\* a file left at OUT by an earlier run
StaleFile == << <<"o", "l", "d", "\n">> >>

\* the experiment's half of a state: the script at `at`, environment e, file f
ExperimentAt(at, e, f) ==
  /\ pc = at
  /\ env = e
  /\ file = f
  /\ exitCode = -1
  /\ i = 0
  /\ attempt = 0
  /\ value = <<>>
  /\ t0 = 0
  /\ clock = 0
  /\ res = Null
  /\ errMsg = <<>>
  /\ timer = 0
  /\ console = <<>>
  /\ rows = <<>>
  /\ nsub = 0
  /\ hist = <<>>
  /\ slept = <<>>

Init ==
  /\ \E e \in Envs, f \in {<<>>, StaleFile} : ExperimentAt("load", e, f)
  /\ WorkerIdle
  /\ PollIdle
  /\ EscIdle

\* process.exit(1) of main().catch, or the uncaught throw at the top level
Die ==
  /\ pc' = "exited"
  /\ exitCode' = 1

\* the check of CONTRACT and MNEMONIC at the top level
EnvCheck ==
  /\ pc = "load"
  /\ IF env.CONTRACT = "" \/ env.MNEMONIC = ""
     THEN Die
     ELSE pc' = "main" /\ UNCHANGED exitCode
  /\ UNCHANGED << wvars, pvars, evars >>
  /\ UNCHANGED << env, file, i, attempt, value, t0, clock, res, errMsg, timer,
                  console, rows, nsub, hist, slept >>

\* main up to the header: key derivation, broadcaster construction
MainStart ==
  /\ pc = "main"
  /\ IF env.MNEMONIC = "bad"
     THEN Die
     ELSE pc' = "header" /\ UNCHANGED exitCode
  /\ UNCHANGED << wvars, pvars, evars >>
  /\ UNCHANGED << env, file, i, attempt, value, t0, clock, res, errMsg, timer,
                  console, rows, nsub, hist, slept >>

\* fs.writeFileSync(OUT, header.join(",") + "\n"); then let i = 1
WriteHeader ==
  /\ pc = "header"
  /\ file' = WriteFile(file, HeaderLine)
  /\ i' = 1
  /\ pc' = "loop"
  /\ UNCHANGED << wvars, pvars, evars >>
  /\ UNCHANGED << env, exitCode, attempt, value, t0, clock, res, errMsg, timer,
                  console, rows, nsub, hist, slept >>

\* fs.writeFileSync throws: at the open, which leaves the file as it was, at
\* a write after the open has truncated the file, or at the close after the
\* whole header has been written
WriteHeaderFails ==
  /\ pc = "header"
  /\ Die
  /\ \/ UNCHANGED file
     \/ file' \in TornWrites(<<>>, HeaderLine)
     \/ file' = WriteFile(file, HeaderLine)
  /\ UNCHANGED << wvars, pvars, evars >>
  /\ UNCHANGED << env, i, attempt, value, t0, clock, res, errMsg, timer,
                  console, rows, nsub, hist, slept >>

\* the trial loop's condition holds: value, msg, t0, res, errMsg, attempt = 1
TrialBegin ==
  /\ pc = "loop"
  /\ TrialLoopContinues(i, env.N)
  /\ value' = PayloadValue(clock, i)
  /\ t0' = clock
  /\ res' = Null
  /\ errMsg' = <<>>
  /\ attempt' = 1
  /\ nsub' = 0
  /\ hist' = <<>>
  /\ slept' = <<>>
  /\ pc' = "attempt"
  /\ UNCHANGED << wvars, pvars, evars >>
  /\ UNCHANGED << env, exitCode, file, i, clock, timer, console, rows >>

\* the trial loop's condition fails: console.log(`wrote: ...`), exit status 0
Finish ==
  /\ pc = "loop"
  /\ ~TrialLoopContinues(i, env.N)
  /\ pc' = "exited"
  /\ exitCode' = 0
  /\ UNCHANGED << wvars, pvars, evars >>
  /\ UNCHANGED << env, file, i, attempt, value, t0, clock, res, errMsg, timer,
                  console, rows, nsub, hist, slept >>

Submit_ResetsT0 ==
  /\ pc = "attempt"
  /\ RetryLoopContinues(attempt)
  /\ nsub' = nsub + 1
  /\ t0' = clock
  /\ pc' = "calling"
  /\ UNCHANGED << wvars, pvars, evars >>
  /\ UNCHANGED << env, exitCode, file, i, attempt, value, clock, res, errMsg,
                  timer, console, rows, hist, slept >>

\* the retry loop's condition holds: broadcaster.broadcast is called
Submit ==
  /\ pc = "attempt"
  /\ RetryLoopContinues(attempt)
  /\ nsub' = nsub + 1
  /\ pc' = "calling"
  /\ UNCHANGED << wvars, pvars, evars >>
  /\ UNCHANGED << env, exitCode, file, i, attempt, value, t0, clock, res, errMsg,
                  timer, console, rows, hist, slept >>

RetryExhausted_Throws ==
  /\ pc = "attempt"
  /\ ~RetryLoopContinues(attempt)
  /\ Die
  /\ UNCHANGED << wvars, pvars, evars >>
  /\ UNCHANGED << env, file, i, attempt, value, t0, clock, res, errMsg, timer,
                  console, rows, nsub, hist, slept >>

\* the retry loop's condition fails: the loop ends
RetryExhausted ==
  /\ pc = "attempt"
  /\ ~RetryLoopContinues(attempt)
  /\ pc' = "record"
  /\ UNCHANGED << wvars, pvars, evars >>
  /\ UNCHANGED << env, exitCode, file, i, attempt, value, t0, clock, res, errMsg,
                  timer, console, rows, nsub, hist, slept >>

BroadcastReturns_NoBreak ==
  /\ pc = "calling"
  /\ \E o \in ReturnOutcomes :
       /\ clock' = clock + o.ms
       /\ res' = o.v
       /\ hist' = Append(hist, [a |-> attempt, kind |-> o.kind, v |-> o.v, ms |-> o.ms])
  /\ errMsg' = <<>>
  /\ attempt' = attempt + 1
  /\ pc' = "attempt"
  /\ UNCHANGED << wvars, pvars, evars >>
  /\ UNCHANGED << env, exitCode, file, i, value, t0, timer, console, rows, nsub, slept >>

\* the awaited broadcast resolves: res = ..., errMsg = "", break
BroadcastReturns ==
  /\ pc = "calling"
  /\ \E o \in ReturnOutcomes :
       /\ clock' = clock + o.ms
       /\ res' = o.v
       /\ hist' = Append(hist, [a |-> attempt, kind |-> o.kind, v |-> o.v, ms |-> o.ms])
  /\ errMsg' = <<>>
  /\ pc' = "record"
  /\ UNCHANGED << wvars, pvars, evars >>
  /\ UNCHANGED << env, exitCode, file, i, attempt, value, t0, timer, console,
                  rows, nsub, slept >>

\* the awaited broadcast rejects: errMsg = ..., await sleep(...)
BroadcastThrows ==
  /\ pc = "calling"
  /\ \E o \in ThrowOutcomes :
       /\ clock' = clock + o.ms
       /\ errMsg' = CatchErrMsg(errMsg, o.v)
       /\ hist' = Append(hist, [a |-> attempt, kind |-> o.kind, v |-> o.v, ms |-> o.ms])
  /\ timer' = BackoffDelay(errMsg', attempt)
  /\ pc' = "backoff"
  /\ UNCHANGED << wvars, pvars, evars >>
  /\ UNCHANGED << env, exitCode, file, i, attempt, value, t0, res, console,
                  rows, nsub, slept >>

\* the backoff timer fires: attempt++
BackoffWake ==
  /\ pc = "backoff"
  /\ clock' = clock + timer
  /\ slept' = Append(slept, timer)
  /\ timer' = 0
  /\ attempt' = attempt + 1
  /\ pc' = "attempt"
  /\ UNCHANGED << wvars, pvars, evars >>
  /\ UNCHANGED << env, exitCode, file, i, value, t0, res, errMsg, console,
                  rows, nsub, hist >>

\* the status line of a trial
StatusLine(idx, n, broadcastMs, r, txhash, msg) ==
  IF Truthy(r)
  THEN [tag |-> "ok", i |-> idx, n |-> n, ms |-> ToFixed(broadcastMs, 1), text |-> ToStr(txhash)]
  ELSE [tag |-> "ERROR", i |-> idx, n |-> n, ms |-> ToFixed(broadcastMs, 1), text |-> msg]

\* after the retry loop: t1, the row, fs.appendFileSync, the status line,
\* then the inter-trial sleep or the next iteration
AppendRow ==
  /\ pc = "record"
  /\ LET row == MakeRow(i, value, clock - t0, res, errMsg)
     IN /\ file' = AppendFile(file, RowLine(row))
        /\ rows' = Append(rows, row)
        /\ console' = Append(console, StatusLine(i, env.N, clock - t0, res, row.txhash, errMsg))
  /\ IF env.SLEEP_MS > 0
     THEN /\ timer' = env.SLEEP_MS
          /\ pc' = "intersleep"
          /\ i' = i
     ELSE /\ timer' = timer
          /\ pc' = "loop"
          /\ i' = i + 1
  /\ UNCHANGED << wvars, pvars, evars >>
  /\ UNCHANGED << env, exitCode, attempt, value, t0, clock, res, errMsg, nsub,
                  hist, slept >>

\* fs.appendFileSync throws: at the open, at a write after part of the row's
\* line has reached the file, or at the close after the whole line has; the
\* status line is not printed
AppendRowFails ==
  /\ pc = "record"
  /\ Die
  /\ \/ UNCHANGED file
     \/ file' \in TornWrites(file, RowLine(MakeRow(i, value, clock - t0, res, errMsg)))
     \/ file' = AppendFile(file, RowLine(MakeRow(i, value, clock - t0, res, errMsg)))
  /\ UNCHANGED << wvars, pvars, evars >>
  /\ UNCHANGED << env, i, attempt, value, t0, clock, res, errMsg, timer,
                  console, rows, nsub, hist, slept >>

\* the inter-trial timer fires: i++
InterTrialWake ==
  /\ pc = "intersleep"
  /\ clock' = clock + timer
  /\ timer' = 0
  /\ i' = i + 1
  /\ pc' = "loop"
  /\ UNCHANGED << wvars, pvars, evars >>
  /\ UNCHANGED << env, exitCode, file, attempt, value, t0, res, errMsg, console,
                  rows, nsub, hist, slept >>

Next ==
  \/ EnvCheck
  \/ MainStart
  \/ WriteHeader
  \/ WriteHeaderFails
  \/ TrialBegin
  \/ Finish
  \/ Submit
  \/ RetryExhausted
  \/ BroadcastReturns
  \/ BroadcastThrows
  \/ BackoffWake
  \/ AppendRowFails
  \/ AppendRow
  \/ InterTrialWake

Spec == Init /\ [][Next]_vars

\* ==================================================== send_set_value.js
\* the code points String.prototype.trim removes (WhiteSpace and
\* LineTerminator of ECMAScript): tab, line feed, vertical tab, form feed,
\* carriage return, space, U+00A0, U+1680, the byte order mark U+FEFF, each
\* as the character itself, and the code points of the U+2000 and U+3000
\* blocks, which a string of this notation cannot hold, by name
WhiteSpace ==
  { "\t", "\n", "", "\f", "\r", " ", " ", " ",
    "U+2000", "U+2001", "U+2002", "U+2003", "U+2004", "U+2005", "U+2006", "U+2007",
    "U+2008", "U+2009", "U+200A", "U+2028", "U+2029", "U+202F", "U+205F", "U+3000",
    "﻿" }

\* String.prototype.trim
RECURSIVE TrimLeft(_)
TrimLeft(s) == IF s # <<>> /\ s[1] \in WhiteSpace THEN TrimLeft(Tail(s)) ELSE s
RECURSIVE TrimRight(_)
TrimRight(s) ==
  IF s # <<>> /\ s[Len(s)] \in WhiteSpace THEN TrimRight(SubSeq(s, 1, Len(s) - 1)) ELSE s
Trim(s) == TrimRight(TrimLeft(s))

\* what JSON.parse("{oops") throws (the wording of V8 in Node 20)
SyntaxError ==
  ErrorObj(<<"E", "x", "p", "e", "c", "t", "e", "d", " ", "p", "r", "o", "p", "e", "r", "t",
             "y", " ", "n", "a", "m", "e", " ", "o", "r", " ", "'", "}", "'", " ", "i", "n",
             " ", "J", "S", "O", "N", " ", "a", "t", " ", "p", "o", "s", "i", "t", "i", "o",
             "n", " ", "1">>)
\* input.value with input null
TypeErrorNull ==
  ErrorObj(<<"C", "a", "n", "n", "o", "t", " ", "r", "e", "a", "d", " ", "p", "r", "o", "p",
             "e", "r", "t", "i", "e", "s", " ", "o", "f", " ", "n", "u", "l", "l", " ", "(",
             "r", "e", "a", "d", "i", "n", "g", " ", "'", "v", "a", "l", "u", "e", "'", ")">>)
\* res.txhash with res undefined
TypeErrorUndefined ==
  ErrorObj(<<"C", "a", "n", "n", "o", "t", " ", "r", "e", "a", "d", " ", "p", "r", "o", "p",
             "e", "r", "t", "i", "e", "s", " ", "o", "f", " ", "u", "n", "d", "e", "f", "i",
             "n", "e", "d", " ", "(", "r", "e", "a", "d", "i", "n", "g", " ", "'", "t", "x",
             "h", "a", "s", "h", "'", ")">>)
EmptyStdinError ==
  ErrorObj(<<"s", "t", "d", "i", "n", " ", "i", "s", " ", "e", "m", "p", "t", "y", " ", "(", "e",
             "x", "p", "e", "c", "t", "e", "d", " ", "J", "S", "O", "N", ")">>)
BadValueError ==
  ErrorObj(<<"i", "n", "p", "u", "t", ".", "v", "a", "l", "u", "e", " ", "m", "u", "s", "t", " ",
             "b", "e", " ", "n", "o", "n", "-", "e", "m", "p", "t", "y", " ", "s", "t", "r", "i",
             "n", "g">>)
MnemonicError == ErrorObj(<<"i", "n", "v", "a", "l", "i", "d", " ", "m", "n", "e", "m", "o", "n", "i", "c">>)

\* The texts the worker is given on stdin, each with what JSON.parse makes of
\* the trimmed text: a value, or the SyntaxError it throws.
StdinDocs ==
  { [text |-> <<>>, json |-> SyntaxError],
    [text |-> <<" ", "\n">>, json |-> SyntaxError],
    [text |-> <<"\f", "U+2029">>, json |-> SyntaxError],
    [text |-> <<"\f", "5", "U+2028">>, json |-> Num(5)],
    [text |-> <<"{", "o", "o", "p", "s">>, json |-> SyntaxError],
    [text |-> <<"n", "u", "l", "l">>, json |-> Null],
    [text |-> <<"5">>, json |-> Num(5)],
    [text |-> <<"{", "}">>, json |-> Obj(<<>>)],
    [text |-> <<"{", "\"", "v", "a", "l", "u", "e", "\"", ":", "\"", "\"", "}">>,
     json |-> Obj([value |-> Str(<<>>)])],
    [text |-> <<"{", "\"", "v", "a", "l", "u", "e", "\"", ":", "7", "}">>,
     json |-> Obj([value |-> Num(7)])],
    [text |-> <<" ", "{", "\"", "v", "a", "l", "u", "e", "\"", ":", "\"", "a", "b", "\"", "}", "\n">>,
     json |-> Obj([value |-> Str(<<"a", "b">>)])],
    [text |-> <<"{", "\"", "v", "a", "l", "u", "e", "\"", ":", "\"", "a", "b", "\"", ",", "\"", "m",
                "e", "m", "o", "\"", ":", "\"", "m", "\"", "}">>,
     json |-> Obj([value |-> Str(<<"a", "b">>), memo |-> Str(<<"m">>)])] }

WorkerEnvs == [ CONTRACT : {"", "inj1contract"}, MNEMONIC : {"", "bad", "good"} ]

\* the outcomes of the worker's broadcast call, each with its latency
WorkerReturnOutcomes ==
  { [kind |-> "return", v |-> TxFull, ms |-> 2],
    [kind |-> "return", v |-> TxCamel, ms |-> 3],
    [kind |-> "return", v |-> TxBare, ms |-> 2],
    [kind |-> "return", v |-> Undef, ms |-> 2] }
WorkerThrowOutcomes ==
  { [kind |-> "throw", v |-> ErrTimeout, ms |-> 1],
    [kind |-> "throw", v |-> ErrorObj(<<>>), ms |-> 1],
    [kind |-> "throw", v |-> Null, ms |-> 4] }

ReadStdin_NoTrim(in) ==
  LET s == in.text
  IN IF s = <<>> THEN [threw |-> TRUE, v |-> EmptyStdinError]
     ELSE IF in.json = SyntaxError THEN [threw |-> TRUE, v |-> SyntaxError]
     ELSE [threw |-> FALSE, v |-> in.json]

\* readStdin: the value returned, or the error thrown
ReadStdin(in) ==
  LET s == Trim(in.text)
  IN IF s = <<>> THEN [threw |-> TRUE, v |-> EmptyStdinError]
     ELSE IF in.json = SyntaxError THEN [threw |-> TRUE, v |-> SyntaxError]
     ELSE [threw |-> FALSE, v |-> in.json]

PrepareError_AllowsEmptyValue(input, mnemonic) ==
  IF Nullish(input) THEN [threw |-> TRUE, v |-> TypeErrorNull]
  ELSE LET val == OptGet(input, "value")
       IN IF val.t # "str" THEN [threw |-> TRUE, v |-> BadValueError]
          ELSE IF mnemonic = "bad" THEN [threw |-> TRUE, v |-> MnemonicError]
          ELSE [threw |-> FALSE, v |-> Undef]

\* main between readStdin and the broadcast call: the error thrown, or none
\* (input.value, the check of value, PrivateKey.fromMnemonic)
PrepareError(input, mnemonic) ==
  IF Nullish(input) THEN [threw |-> TRUE, v |-> TypeErrorNull]
  ELSE LET val == OptGet(input, "value")
       IN IF val.t # "str" \/ Len(val.s) = 0 THEN [threw |-> TRUE, v |-> BadValueError]
          ELSE IF mnemonic = "bad" THEN [threw |-> TRUE, v |-> MnemonicError]
          ELSE [threw |-> FALSE, v |-> Undef]

ErrDoc_OkTrue(e) ==
  [ ok |-> TRUE,
    error |-> Coalesce(OptGet(e, "message"), Str(ToStr(e))) ]

\* the document of main().catch: error is e?.message ?? String(e)
ErrDoc(e) ==
  [ ok |-> FALSE,
    error |-> Coalesce(OptGet(e, "message"), Str(ToStr(e))) ]

\* the document main writes after the broadcast
OutDoc(r, ms, e, input) ==
  [ ok |-> TRUE,
    txhash |-> JsOr(JsOr(OptGet(r, "txhash"), OptGet(r, "txHash")), Str(<<>>)),
    broadcast_ms |-> Num(ms),
    height |-> Coalesce(OptGet(r, "height"), Null),
    code |-> Coalesce(OptGet(r, "code"), Null),
    gasWanted |-> Coalesce(OptGet(r, "gasWanted"), Null),
    gasUsed |-> Coalesce(OptGet(r, "gasUsed"), Null),
    timestamp |-> Coalesce(OptGet(r, "timestamp"), Null),
    sender |-> Str(<<"i", "n", "j", "1", "s", "e", "n", "d", "e", "r">>),
    contract |-> e.CONTRACT,
    value_len |-> Num(Len(OptGet(input, "value").s)) ]

\* main().catch: one document, then process.exit(1)
CatchHandler(e) ==
  /\ stdout' = Append(stdout, ErrDoc(e))
  /\ wexit' = 1
  /\ wpc' = "exited"

\* the experiment's half of a state in which only the worker runs
ExperimentIdle == ExperimentAt("idle", [CONTRACT |-> "", MNEMONIC |-> "", N |-> 0, SLEEP_MS |-> 0], <<>>)

InitWorker ==
  /\ ExperimentIdle
  /\ PollIdle
  /\ EscIdle
  /\ wpc = "load"
  /\ wenv \in WorkerEnvs
  /\ stdin \in StdinDocs
  /\ stdout = <<>>
  /\ wexit = -1
  /\ wsub = 0
  /\ wclock = 0
  /\ wt0 = 0

\* the check of CONTRACT and MNEMONIC at the top level: an uncaught throw, or
\* main() is called and awaits readStdin
WorkerEnvCheck ==
  /\ wpc = "load"
  /\ IF wenv.CONTRACT = "" \/ wenv.MNEMONIC = ""
     THEN wpc' = "exited" /\ wexit' = 1
     ELSE wpc' = "reading" /\ wexit' = wexit
  /\ UNCHANGED << wenv, stdin, stdout, wsub, wclock, wt0 >>
  /\ UNCHANGED << xvars, pvars, evars >>

\* stdin ends, readStdin throws: main().catch
WorkerReadFails ==
  /\ wpc = "reading"
  /\ ReadStdin(stdin).threw
  /\ CatchHandler(ReadStdin(stdin).v)
  /\ UNCHANGED << wenv, stdin, wsub, wclock, wt0 >>
  /\ UNCHANGED << xvars, pvars, evars >>

\* stdin ends, readStdin returns, main throws before the broadcast: main().catch
WorkerPrepareFails ==
  /\ wpc = "reading"
  /\ ~ReadStdin(stdin).threw
  /\ PrepareError(ReadStdin(stdin).v, wenv.MNEMONIC).threw
  /\ CatchHandler(PrepareError(ReadStdin(stdin).v, wenv.MNEMONIC).v)
  /\ UNCHANGED << wenv, stdin, wsub, wclock, wt0 >>
  /\ UNCHANGED << xvars, pvars, evars >>

\* stdin ends, readStdin returns, main reaches t0 and calls broadcaster.broadcast
WorkerSubmit ==
  /\ wpc = "reading"
  /\ ~ReadStdin(stdin).threw
  /\ ~PrepareError(ReadStdin(stdin).v, wenv.MNEMONIC).threw
  /\ wt0' = wclock
  /\ wsub' = wsub + 1
  /\ wpc' = "calling"
  /\ UNCHANGED << wenv, stdin, stdout, wexit, wclock >>
  /\ UNCHANGED << xvars, pvars, evars >>

\* the broadcast resolves: the out document is written, or res.txhash throws
WorkerBroadcastReturns ==
  /\ wpc = "calling"
  /\ \E o \in WorkerReturnOutcomes :
       /\ wclock' = wclock + o.ms
       /\ IF Nullish(o.v)
          THEN CatchHandler(TypeErrorUndefined)
          ELSE /\ stdout' = Append(stdout, OutDoc(o.v, wclock' - wt0, wenv, ReadStdin(stdin).v))
               /\ wpc' = "written"
               /\ wexit' = wexit
  /\ UNCHANGED << wenv, stdin, wsub, wt0 >>
  /\ UNCHANGED << xvars, pvars, evars >>

\* the broadcast rejects: main().catch
WorkerBroadcastThrows ==
  /\ wpc = "calling"
  /\ \E o \in WorkerThrowOutcomes :
       /\ wclock' = wclock + o.ms
       /\ CatchHandler(o.v)
  /\ UNCHANGED << wenv, stdin, wsub, wt0 >>
  /\ UNCHANGED << xvars, pvars, evars >>

\* main has resolved: the process ends with status 0
WorkerExit ==
  /\ wpc = "written"
  /\ wpc' = "exited"
  /\ wexit' = 0
  /\ UNCHANGED << wenv, stdin, stdout, wsub, wclock, wt0 >>
  /\ UNCHANGED << xvars, pvars, evars >>

NextWorker ==
  \/ WorkerEnvCheck
  \/ WorkerReadFails
  \/ WorkerPrepareFails
  \/ WorkerSubmit
  \/ WorkerBroadcastReturns
  \/ WorkerBroadcastThrows
  \/ WorkerExit

SpecWorker == InitWorker /\ [][NextWorker]_vars

\* ================================================ set-and-confirm script
\* the bound of the poll loop: i < 45
MaxPolls == 45
\* the argument of the sleep call in the poll loop
PollIntervalMs == 2000

PollEnvs == [ RPC : {"", "https://rpc"}, CONTRACT : {"", "inj1contract"}, MNEMONIC : {"", "bad", "good"} ]

\* `hello-from-pi-${Date.now()}`
NewValue(now) ==
  <<"h", "e", "l", "l", "o", "-", "f", "r", "o", "m", "-", "p", "i", "-">> \o Dec(now)

\* what queryContractSmart(CONTRACT, {get_value: {}}) resolves to
QueryResponses(expected) ==
  { Obj([value |-> Str(expected)]),
    Obj([value |-> Str(<<"o", "l", "d">>)]),
    Obj([value |-> Num(7)]),
    Null }

IsConfirmed_AnyValue(v, expected) == Truthy(OptGet(v, "value"))

\* v?.value === newValue
IsConfirmed(v, expected) == OptGet(v, "value") = Str(expected)

PollLoopContinues_Inclusive(k) == k <= MaxPolls

\* the condition of the poll loop: i < 45
PollLoopContinues(k) == k < MaxPolls

InitPoll ==
  /\ ExperimentIdle
  /\ WorkerIdle
  /\ EscIdle
  /\ \E e \in PollEnvs : PollAt("load", e)

\* process.exit(1) of main().catch, or the uncaught throw at the top level
PollDie ==
  /\ ppc' = "exited"
  /\ pexit' = 1

\* the check of RPC, CONTRACT and MNEMONIC at the top level, then newValue
PollEnvCheck ==
  /\ ppc = "load"
  /\ IF penv.RPC = "" \/ penv.CONTRACT = "" \/ penv.MNEMONIC = ""
     THEN PollDie /\ UNCHANGED newValue
     ELSE /\ newValue' = NewValue(pclock)
          /\ ppc' = "main"
          /\ pexit' = pexit
  /\ UNCHANGED << penv, pi, plast, ptimer, pclock, poutcome, nbroadcast, nquery, nresp, pslept >>
  /\ UNCHANGED << xvars, wvars, evars >>

\* main up to the awaited broadcaster.broadcast
PollBroadcast ==
  /\ ppc = "main"
  /\ IF penv.MNEMONIC = "bad"
     THEN PollDie /\ UNCHANGED nbroadcast
     ELSE /\ nbroadcast' = nbroadcast + 1
          /\ ppc' = "broadcasting"
          /\ pexit' = pexit
  /\ UNCHANGED << penv, newValue, pi, plast, ptimer, pclock, poutcome, nquery, nresp, pslept >>
  /\ UNCHANGED << xvars, wvars, evars >>

\* the broadcast resolves: txHash is logged, let i = 0
PollBroadcastReturns ==
  /\ ppc = "broadcasting"
  /\ pi' = 0
  /\ ppc' = "loop"
  /\ UNCHANGED << penv, pexit, newValue, plast, ptimer, pclock, poutcome, nbroadcast, nquery,
                  nresp, pslept >>
  /\ UNCHANGED << xvars, wvars, evars >>

\* the broadcast rejects: main().catch
PollBroadcastThrows ==
  /\ ppc = "broadcasting"
  /\ PollDie
  /\ UNCHANGED << penv, newValue, pi, plast, ptimer, pclock, poutcome, nbroadcast, nquery,
                  nresp, pslept >>
  /\ UNCHANGED << xvars, wvars, evars >>

\* the poll loop's condition holds: queryValue() is called
PollQuery ==
  /\ ppc = "loop"
  /\ PollLoopContinues(pi)
  /\ nquery' = nquery + 1
  /\ ppc' = "querying"
  /\ UNCHANGED << penv, pexit, newValue, pi, plast, ptimer, pclock, poutcome, nbroadcast,
                  nresp, pslept >>
  /\ UNCHANGED << xvars, wvars, evars >>

\* the poll loop's condition fails: "Not confirmed yet" is logged, main resolves
PollNotConfirmed ==
  /\ ppc = "loop"
  /\ ~PollLoopContinues(pi)
  /\ poutcome' = "not confirmed"
  /\ ppc' = "exited"
  /\ pexit' = 0
  /\ UNCHANGED << penv, newValue, pi, plast, ptimer, pclock, nbroadcast, nquery, nresp, pslept >>
  /\ UNCHANGED << xvars, wvars, evars >>

\* queryValue() resolves: CONFIRMED and return, or "waiting..." and sleep(2000)
PollQueryReturns ==
  /\ ppc = "querying"
  /\ \E v \in QueryResponses(newValue) :
       /\ plast' = v
       /\ IF IsConfirmed(v, newValue)
          THEN /\ poutcome' = "confirmed"
               /\ ppc' = "exited"
               /\ pexit' = 0
               /\ ptimer' = ptimer
          ELSE /\ ptimer' = PollIntervalMs
               /\ ppc' = "waiting"
               /\ UNCHANGED << poutcome, pexit >>
  /\ nresp' = nresp + 1
  /\ pclock' = pclock + 1
  /\ UNCHANGED << penv, newValue, pi, nbroadcast, nquery, pslept >>
  /\ UNCHANGED << xvars, wvars, evars >>

\* queryValue() rejects (connect or query failure): main().catch
PollQueryThrows ==
  /\ ppc = "querying"
  /\ PollDie
  /\ UNCHANGED << penv, newValue, pi, plast, ptimer, pclock, poutcome, nbroadcast, nquery,
                  nresp, pslept >>
  /\ UNCHANGED << xvars, wvars, evars >>

\* the poll timer fires: i++
PollWake ==
  /\ ppc = "waiting"
  /\ pclock' = pclock + ptimer
  /\ pslept' = pslept + ptimer
  /\ ptimer' = 0
  /\ pi' = pi + 1
  /\ ppc' = "loop"
  /\ UNCHANGED << penv, pexit, newValue, plast, poutcome, nbroadcast, nquery, nresp >>
  /\ UNCHANGED << xvars, wvars, evars >>

NextPoll ==
  \/ PollEnvCheck
  \/ PollBroadcast
  \/ PollBroadcastReturns
  \/ PollBroadcastThrows
  \/ PollQuery
  \/ PollNotConfirmed
  \/ PollQueryReturns
  \/ PollQueryThrows
  \/ PollWake

\* timers fire and awaited calls settle: the script always takes its next step
SpecPoll == InitPoll /\ [][NextPoll]_vars /\ WF_vars(NextPoll)

\* awaited calls settle and timers fire: the loop always takes its next step
SpecFair == Init /\ [][Next]_vars /\ WF_vars(Next)

\* ======================================================= esc on its own
\* the longest string handed to esc
EscMaxLen == 3

EscAlphabet == {"a", ",", "\"", "\n", "\r"}

\* the values a row field can hold: absent, a number, a string
EscInputs ==
  {Undef, Null, Num(0), Num(81)}
    \cup { Str(s) : s \in UNION { [1..n -> EscAlphabet] : n \in 0..EscMaxLen } }

InitEsc ==
  /\ ExperimentIdle
  /\ WorkerIdle
  /\ PollIdle
  /\ epc = "in"
  /\ ein \in EscInputs
  /\ eout = <<>>

\* one call esc(v)
EscApply ==
  /\ epc = "in"
  /\ eout' = esc(ein)
  /\ epc' = "done"
  /\ UNCHANGED ein
  /\ UNCHANGED << xvars, wvars, pvars >>

NextEsc == EscApply

SpecEsc == InitEsc /\ [][NextEsc]_vars

\* ================================================================ claims
Last(q) == q[Len(q)]

RECURSIVE Sum(_)
Sum(q) == IF q = <<>> THEN 0 ELSE q[1] + Sum(Tail(q))

\* the text of a line up to its first comma
FirstField(line) ==
  SubSeq(line, 1, (CHOOSE k \in 1..Len(line) : line[k] = "," /\ \A j \in 1..(k - 1) : line[j] # ",") - 1)

\* a trial is between its first statement and the append of its row
InTrial == pc \in {"attempt", "calling", "backoff", "record"}

\* the row of the trial whose attempts hist holds has been appended
RowOfTrialAppended ==
  /\ hist # <<>>
  /\ rows # <<>>
  /\ \/ pc \in {"intersleep", "loop"}
     \/ pc = "exited" /\ exitCode = 0

\* every attempt of the current trial failed, and there were three
AllThreeFailed ==
  /\ Len(hist) = 3
  /\ \A k \in 1..3 : hist[k].kind = "throw"

\* completed trials: those whose fs.appendFileSync has returned, counted from
\* the loop counter; the trial whose append threw is not among them
Completed == IF pc = "intersleep" THEN i ELSE i - 1

\* the run was ended by a throwing fs.appendFileSync, in trial i
AppendFailed == pc = "exited" /\ exitCode = 1 /\ i >= 1

\* the line of the row of the trial in progress
CurrentRowLine == RowLine(MakeRow(i, value, clock - t0, res, errMsg))

HeaderWritten == i >= 1

\* C1: every trial issues at least 1 and at most 3 broadcast submissions, and
\* the attempt counter of the first submission is 1 (the n-th submission of a
\* trial is attempt n).
C1_SubmissionsBetweenOneAndThree ==
  /\ nsub <= 3
  /\ (pc \in {"calling", "backoff", "record", "intersleep"}
        \/ (pc \in {"loop", "exited"} /\ rows # <<>>)) => nsub >= 1
  /\ pc = "calling" => attempt = nsub
  /\ Len(hist) <= nsub

C1_Witness == pc = "record" /\ nsub = 3 /\ AllThreeFailed

\* C2: once an attempt of a trial has returned, the trial issues no further
\* submission and starts no backoff delay, and the row then appended carries
\* that attempt's result.
C2_NoRetryAfterSuccess ==
  [][ (InTrial /\ hist # <<>> /\ Last(hist).kind = "return") =>
        /\ nsub' = nsub
        /\ slept' = slept
        /\ pc' \notin {"calling", "backoff", "attempt"}
        /\ (rows' # rows =>
              /\ Len(rows') = Len(rows) + 1
              /\ Last(rows').txhash =
                   (IF Last(hist).v = TxFull THEN Str(<<"A", "B", "1">>)
                    ELSE IF Last(hist).v = TxCamel THEN Str(<<"C", "D", "2">>)
                    ELSE Str(<<>>))
              /\ Last(rows').code = (IF Last(hist).v = Undef THEN Str(<<>>) ELSE Num(0))
              /\ Last(rows').error = Str(<<>>)) ]_vars

C2_Witness ==
  /\ RowOfTrialAppended
  /\ Len(hist) = 3
  /\ hist[3].kind = "return"
  /\ hist[3].v = TxCamel
  /\ Last(rows).txhash = Str(<<"C", "D", "2">>)

\* C3: after the 3rd failed attempt of a trial no backoff delay is performed.
C3_NoBackoffAfterFinalAttempt == ~(pc = "backoff" /\ attempt = 3)

\* C4: the backoff before a retry is 1200*a ms after a message that matches
\* sequence|account sequence|incorrect in any letter case and 400*a ms after
\* any other; two failures "account sequence mismatch" followed by a success
\* sleep 1200 + 2400 = 3600 ms in all and the row has an empty error.
C4_SequenceClass == {ErrSequence, ErrIncorrect}

C4_TwoSequenceFailuresThenSuccess ==
  /\ Len(hist) = 3
  /\ hist[1].v = ErrSequence
  /\ hist[2].v = ErrSequence
  /\ hist[3].kind = "return"

C4_BackoffDelays ==
  /\ (pc = "backoff" /\ attempt < 3) =>
        timer = (IF Last(hist).v \in C4_SequenceClass THEN 1200 ELSE 400) * attempt
  /\ C4_TwoSequenceFailuresThenSuccess => Sum(slept) = 3600
  /\ (C4_TwoSequenceFailuresThenSuccess /\ RowOfTrialAppended) => Last(rows).error = Str(<<>>)

C4_Witness ==
  /\ C4_TwoSequenceFailuresThenSuccess
  /\ RowOfTrialAppended
  /\ slept = <<1200, 2400>>
  /\ Last(rows).txhash = Str(<<"A", "B", "1">>)

\* C5: once the header is written the file is the header followed by exactly
\* one line per completed trial, failed or not, each a whole line, the k-th
\* starting with the trial index k. In a run ended by a throwing append the
\* trial whose append threw may count as completed or not: its whole row may
\* be in the file or absent.
C5_OneRowPerCompletedTrial ==
  HeaderWritten =>
    /\ file # <<>>
    /\ file[1] = HeaderLine
    /\ \/ Len(file) = 1 + Completed
       \/ AppendFailed /\ Len(file) = 1 + Completed + 1
    /\ \A k \in 1..(Len(file) - 1) :
         /\ Last(file[k + 1]) = "\n"
         /\ FirstField(file[k + 1]) = Dec(k)
    /\ Len(rows) = Completed

C5_Witness ==
  /\ Completed = 2
  /\ Len(file) = 3
  /\ rows[1].error # Str(<<>>)
  /\ rows[2].error = Str(<<>>)

\* C6: a broadcast submission of trial i is issued only when the rows of
\* trials 1..i-1 are all in the file, and never out of a backoff sleep.
C6_NoSubmissionBeforePreviousRow ==
  [][ nsub' = nsub + 1 =>
        /\ Len(file) = i
        /\ \A k \in 1..(i - 1) : FirstField(file[k + 1]) = Dec(k)
        /\ pc # "backoff" ]_vars

C6_Witness ==
  /\ pc = "calling"
  /\ i = 2
  /\ FirstField(file[2]) = <<"1">>
  /\ rows[1].error # Str(<<>>)

\* C7: whenever a trial has started the first line of the file is the
\* header; during trial 1 the file is the header alone; and a run stopped
\* during trial 1 leaves the header and no data row, or, when it was stopped
\* by the append of trial 1 throwing, at most the whole row of trial 1.
C7_HeaderBeforeFirstTrial ==
  /\ (InTrial \/ nsub > 0 \/ rows # <<>>) => (file # <<>> /\ file[1] = HeaderLine)
  /\ (i = 1 /\ InTrial) => file = <<HeaderLine>>
  /\ (i = 1 /\ pc = "exited") =>
       \/ file = <<HeaderLine>>
       \/ AppendFailed /\ file = <<HeaderLine, CurrentRowLine>>

C7_Witness == pc = "calling" /\ i = 1 /\ nsub = 1 /\ file = <<HeaderLine>>

\* C8: the run ends with a failure status only out of the start-up checks,
\* the header write or a row write; it ends with status 0 only after N rows;
\* and a trial whose 3 attempts failed gets its row, after which the next
\* trial starts.
C8_TrialFailureNeverAborts ==
  [][ /\ (exitCode' = 1 /\ exitCode # 1) => pc \in {"load", "main", "header", "record"}
      /\ exitCode' = 0 => Len(rows') = env.N
      /\ (pc = "attempt" /\ AllThreeFailed) => pc' = "record"
      /\ (pc = "record" /\ AllThreeFailed /\ exitCode' # 1) =>
            (Len(rows') = Len(rows) + 1 /\ pc' \in {"loop", "intersleep"})
      /\ (pc = "loop" /\ i <= env.N) => (pc' = "attempt" /\ nsub' = 0) ]_vars

C8_Witness ==
  /\ pc = "calling"
  /\ i = 2
  /\ rows[1].error = Str(<<"t", "i", "m", "e", "o", "u", "t">>)

\* C9: when all 3 attempts of a trial failed, its row has the message of the
\* 3rd failure as error, and empty txhash, code, height, gasWanted, gasUsed
\* and timestamp.
C9_LastErrorRecorded ==
  (AllThreeFailed /\ RowOfTrialAppended) =>
    /\ Last(rows).error = Str(hist[3].v.message)
    /\ Last(rows).txhash = Str(<<>>)
    /\ Last(rows).code = Str(<<>>)
    /\ Last(rows).height = Str(<<>>)
    /\ Last(rows).gasWanted = Str(<<>>)
    /\ Last(rows).gasUsed = Str(<<>>)
    /\ Last(rows).timestamp = Str(<<>>)

C9_Witness ==
  /\ AllThreeFailed
  /\ RowOfTrialAppended
  /\ hist[1].v = ErrSequence
  /\ hist[3].v = ErrTimeout
  /\ Last(rows).error = Str(<<"t", "i", "m", "e", "o", "u", "t">>)

\* C10 as stated: every invocation of the worker ends having written exactly
\* one document, ok:true with exit status 0 or ok:false with a non-zero one.
C10_ExactlyOneDocumentAlways ==
  /\ Len(stdout) <= 1
  /\ wpc = "exited" =>
       /\ Len(stdout) = 1
       /\ stdout[1].ok <=> wexit = 0

WorkerEnvMissing == wenv.CONTRACT = "" \/ wenv.MNEMONIC = ""

\* C10 amended: the worker never writes two documents; with CONTRACT and
\* MNEMONIC set it ends having written exactly one, ok:true with exit status
\* 0 or ok:false with a non-zero one; with either unset it ends with a
\* non-zero status and no document.
C10_OneDocumentUnlessEnvMissing ==
  /\ Len(stdout) <= 1
  /\ wpc = "written" => (Len(stdout) = 1 /\ stdout[1].ok)
  /\ wpc = "exited" =>
       IF WorkerEnvMissing
       THEN stdout = <<>> /\ wexit = 1
       ELSE /\ Len(stdout) = 1
            /\ stdout[1].ok <=> wexit = 0
            /\ ~stdout[1].ok <=> wexit = 1

C10_Witness ==
  /\ wpc = "exited"
  /\ wsub = 1
  /\ wexit = 1
  /\ Len(stdout) = 1
  /\ ~stdout[1].ok

\* C11: every document the worker writes with ok:true has a non-empty txhash,
\* whether the broadcast result has txhash, txHash or neither.
C11_OkImpliesTxhash ==
  \A k \in 1..Len(stdout) : stdout[k].ok => stdout[k].txhash # Str(<<>>)

\* the worker's input is a JSON object whose value is a non-empty string
ValidInput ==
  /\ stdin.json.t = "obj"
  /\ "value" \in DOMAIN stdin.json.f
  /\ stdin.json.f.value.t = "str"
  /\ stdin.json.f.value.s # <<>>

\* C12 as stated: the worker issues at most one broadcast call, exactly one
\* when its input is a JSON object whose value is a non-empty string, and
\* none otherwise.
C12_OneSubmissionIffValidInput ==
  /\ wsub <= 1
  /\ wpc = "exited" => (wsub = 1 <=> ValidInput)

\* C12 amended: the worker issues at most one broadcast call; exactly one when
\* CONTRACT and MNEMONIC are set, the key can be derived from MNEMONIC and the
\* input is a JSON object whose value is a non-empty string; none otherwise.
C12_OneSubmissionIffValidInputAndKey ==
  /\ wsub <= 1
  /\ wpc \in {"calling", "written"} => wsub = 1
  /\ wpc = "exited" =>
       (wsub = 1 <=> (ValidInput /\ ~WorkerEnvMissing /\ wenv.MNEMONIC # "bad"))

C12_Witness ==
  /\ wpc = "exited"
  /\ wsub = 1
  /\ ValidInput
  /\ Len(stdout) = 1
  /\ stdout[1].ok

C13_EmptyTexts == { <<>>, <<" ", "\n">>, <<"\f", "U+2029">> }
C13_MalformedTexts == { <<"{", "o", "o", "p", "s">> }

\* C13 as stated: with an empty or unparseable input the worker exits with a
\* non-zero status without having written any document.
C13_BadInputExitsWithoutDocument ==
  (wpc = "exited" /\ stdin.text \in C13_EmptyTexts \cup C13_MalformedTexts) =>
    (stdout = <<>> /\ wexit # 0)

\* C13 amended: with CONTRACT and MNEMONIC set, an empty or unparseable input
\* is a handled failure: no broadcast call, one ok:false document carrying
\* the error's message, exit status 1.
C13_BadInputIsHandledFailure ==
  (wpc = "exited" /\ ~WorkerEnvMissing /\ stdin.text \in C13_EmptyTexts \cup C13_MalformedTexts) =>
    /\ wsub = 0
    /\ wexit = 1
    /\ Len(stdout) = 1
    /\ ~stdout[1].ok
    /\ stdout[1].error =
         (IF stdin.text \in C13_EmptyTexts
          THEN Str(<<"s", "t", "d", "i", "n", " ", "i", "s", " ", "e", "m", "p", "t", "y", " ", "(",
                     "e", "x", "p", "e", "c", "t", "e", "d", " ", "J", "S", "O", "N", ")">>)
          ELSE Str(<<"E", "x", "p", "e", "c", "t", "e", "d", " ", "p", "r", "o", "p", "e", "r", "t",
                     "y", " ", "n", "a", "m", "e", " ", "o", "r", " ", "'", "}", "'", " ", "i", "n",
                     " ", "J", "S", "O", "N", " ", "a", "t", " ", "p", "o", "s", "i", "t", "i", "o",
                     "n", " ", "1">>))

C13_Witness ==
  /\ wpc = "exited"
  /\ stdin.text = <<" ", "\n">>
  /\ Len(stdout) = 1
  /\ ~stdout[1].ok
  /\ wexit = 1

PollMatch == Obj([value |-> Str(newValue)])

\* C14: the poll loop issues at most 45 queries and waits 2000 ms after each
\* response that does not match; a run whose 45 responses all fail to match
\* logs "not confirmed" and ends with status 0; and the script always ends.
C14_Safety ==
  /\ nquery <= 45
  /\ ppc = "waiting" => ptimer = 2000
  /\ pslept = 2000 * pi
  /\ poutcome = "not confirmed" =>
       /\ nquery = 45
       /\ nresp = 45
       /\ pslept = 45 * 2000
       /\ pexit = 0
       /\ ppc = "exited"
  /\ (ppc = "exited" /\ nresp = 45 /\ plast # PollMatch) => (poutcome = "not confirmed" /\ pexit = 0)

C14_PollingTerminates == []C14_Safety /\ <>(ppc = "exited")

C14_Witness == ppc = "exited" /\ poutcome = "not confirmed" /\ nquery = 45 /\ pexit = 0

\* C15: "confirmed" is logged exactly on the first response whose value is
\* the value set, and no query follows it; a response never leads to an error
\* exit; at most one broadcast is issued, exactly one before any query and in
\* any run that ends normally, and none once a query has been issued.
C15_State ==
  /\ (nresp > 0 /\ plast = PollMatch) => (ppc = "exited" /\ poutcome = "confirmed" /\ pexit = 0)
  /\ poutcome = "confirmed" => (nresp > 0 /\ plast = PollMatch /\ nquery = nresp)
  /\ nbroadcast <= 1
  /\ (nquery > 0 \/ pexit = 0) => nbroadcast = 1

C15_Step ==
  /\ nresp' = nresp + 1 => pexit' # 1
  /\ nbroadcast' # nbroadcast => (nquery = 0 /\ nquery' = 0)
  /\ poutcome = "confirmed" => nquery' = nquery

C15_ConfirmedOnFirstMatchAndObservational == []C15_State /\ [][C15_Step]_vars

C15_Witness ==
  /\ ppc = "exited"
  /\ poutcome = "confirmed"
  /\ nquery = 3
  /\ nbroadcast = 1
  /\ pslept = 4000

\* RFC 4180 field reader, the part after the opening quote: "" is one quote,
\* a single quote closes the field.
RECURSIVE ParseQuoted(_)
ParseQuoted(r) ==
  IF r = <<>> THEN [field |-> <<>>, rest |-> <<>>, closed |-> FALSE]
  ELSE IF r[1] = "\""
       THEN IF Len(r) >= 2 /\ r[2] = "\""
            THEN LET p == ParseQuoted(SubSeq(r, 3, Len(r)))
                 IN [p EXCEPT !.field = <<"\"">> \o @]
            ELSE [field |-> <<>>, rest |-> Tail(r), closed |-> TRUE]
       ELSE LET p == ParseQuoted(Tail(r))
            IN [p EXCEPT !.field = <<r[1]>> \o @]

\* RFC 4180 field reader, a field that is not quoted: it ends at the field
\* separator or at a line break character.
RECURSIVE ParseBare(_)
ParseBare(r) ==
  IF r = <<>> \/ r[1] \in {",", "\n", "\r"}
  THEN [field |-> <<>>, rest |-> r, closed |-> TRUE]
  ELSE LET p == ParseBare(Tail(r))
       IN [p EXCEPT !.field = <<r[1]>> \o @]

ParseField(t) ==
  IF t # <<>> /\ t[1] = "\"" THEN ParseQuoted(Tail(t)) ELSE ParseBare(t)

EscText == ToStr(Coalesce(ein, Str(<<>>)))

\* C16: esc round-trips through an RFC 4180 field reader for every string
\* over the alphabet {a, comma, quote, LF, CR}; the field is quoted, with
\* inner quotes doubled, exactly when it holds a comma, a quote or a newline;
\* null and undefined give the empty field.
C16_EscRoundTrips ==
  epc = "done" =>
    LET p == ParseField(eout)
        special == HasChar(EscText, ",") \/ HasChar(EscText, "\"") \/ HasChar(EscText, "\n")
    IN /\ p.closed
       /\ p.rest = <<>>
       /\ p.field = EscText
       /\ special => eout = <<"\"">> \o DoubleQuotes(EscText) \o <<"\"">>
       /\ ~special => eout = EscText
       /\ Nullish(ein) => eout = <<>>

\* C17: with a trial count of 0 the experiment loop is unbounded: it never
\* stops because of the trial count.
C17_ZeroTrialCountNeverStops == env.N = 0 => ~(pc = "exited" /\ exitCode = 0)

\* C18: for N >= 1, when every broadcast call settles and every timer fires,
\* the run terminates; a run that ends normally leaves the header and exactly
\* N rows; the run ends with an error only at start-up or at a log write,
\* never inside the retry loop; and every state before the end has a next
\* step, so the only place the loop can wait is an awaited call.
C18_AtEnd ==
  (pc = "exited" /\ exitCode = 0 /\ env.N >= 1) =>
    /\ Len(file) = 1 + env.N
    /\ file[1] = HeaderLine
    /\ Len(rows) = env.N
    /\ \A k \in 1..env.N : file[1 + k] = RowLine(rows[k])

C18_ErrorExitOnlyAtStartOrWrite ==
  exitCode' = 1 /\ exitCode # 1 => pc \in {"load", "main", "header", "record"}

C18_TerminatesWithHeaderAndNRows ==
  /\ <>(pc = "exited")
  /\ []C18_AtEnd
  /\ [](pc # "exited" => ENABLED Next)
  /\ [][C18_ErrorExitOnlyAtStartOrWrite]_vars

C18_Witness ==
  /\ pc = "exited"
  /\ exitCode = 0
  /\ env.N = 2
  /\ Len(file) = 3
  /\ Len(hist) = 3

\* some attempt of the trial returned without throwing
SomeAttemptReturned == \E k \in 1..Len(hist) : hist[k].kind = "return"

\* C19: in every appended row the error field is non-empty exactly when no
\* attempt of the trial succeeded, and the trial's status line says ERROR
\* exactly when the row's error field is non-empty.
C19_ErrorFieldAgreesWithStatusLine ==
  RowOfTrialAppended =>
    /\ Last(rows).error # Str(<<>>) <=> ~SomeAttemptReturned
    /\ Last(console).tag = "ERROR" <=> Last(rows).error # Str(<<>>)

DigitVal(c) == CHOOSE d \in 0..9 : Dec(d) = <<c>>

RECURSIVE ParseNat(_)
ParseNat(q) ==
  IF q = <<>> THEN 0 ELSE 10 * ParseNat(SubSeq(q, 1, Len(q) - 1)) + DigitVal(q[Len(q)])

\* the whole milliseconds of a toFixed text
WholeMs(s) ==
  ParseNat(SubSeq(s, 1, (CHOOSE k \in 1..Len(s) : s[k] = "." /\ \A j \in 1..(k - 1) : s[j] # ".") - 1))

RECURSIVE SumMs(_)
SumMs(h) == IF h = <<>> THEN 0 ELSE h[1].ms + SumMs(Tail(h))

\* C20: the broadcast_ms of a row covers the whole retry loop: it is at least
\* the backoff delays slept in the trial plus the latency of every attempt,
\* so after k failures it is at least the k backoff delays and more than the
\* latency of the last call alone.
C20_BroadcastMsCoversRetryLoop ==
  RowOfTrialAppended =>
    LET ms == WholeMs(Last(rows).broadcast_ms.s)
    IN /\ ms >= Sum(slept) + SumMs(hist)
       /\ Len(slept) = Len(hist) - (IF Last(hist).kind = "return" THEN 1 ELSE 0)
       /\ Len(hist) > 1 => ms > Last(hist).ms

C20_Witness ==
  /\ RowOfTrialAppended
  /\ Len(hist) = 3
  /\ Last(hist).kind = "return"
  /\ Sum(slept) = 1200 + 800
  /\ WholeMs(Last(rows).broadcast_ms.s) = 1200 + 800 + 1 + 1 + 3

====
